---- MODULE Spec2Model ----
(***************************************************************************)
(* Choreographed funds-transfer saga on Azure Functions + Event Hubs.      *)
(*                                                                         *)
(*   ClientFunction      (HTTP)  publishes StartTransfer                   *)
(*   DepositFunds        consumes StartTransfer, publishes                 *)
(*                       DepositCompleted | DepositCompensation            *)
(*   WithdrawFunds       consumes StartTransfer, publishes                 *)
(*                       WithdrawCompleted | WithdrawCompensation          *)
(*   CompensateDeposit   consumes DepositCompensation, logs the reversal   *)
(*   CompensateWithdraw  consumes WithdrawCompensation, logs the reversal  *)
(*                                                                         *)
(* A handler is a JavaScript async function: it runs atomically from one   *)
(* await to the next.  The awaits are producerClient.sendBatch and         *)
(* producerClient.close, so an action of the model is one such run.        *)
(***************************************************************************)
EXTENDS Integers, Sequences, FiniteSets, TLC

(***************************************************************************)
(* Bounds of the model.                                                    *)
(***************************************************************************)
\* HTTP requests handled by ClientFunction in one behaviour
MaxRequests == 2
\* of these, the requests the saga as a whole is run for
MaxTransfers == 1
\* messages in one batch handed to an Event Hub trigger
MaxBatch == 2
\* batches the bus hands to a trigger a second time (at-least-once delivery)
MaxRedeliver == 1

\* events a producer other than the saga's own publishes
MaxProduced == 1

(***************************************************************************)
(* JavaScript values held by the fields of a request or an event.          *)
(***************************************************************************)
Undefined == [t |-> "undefined"]

Null == [t |-> "null"]

Str(s) == [t |-> "string", s |-> s]

Num(n) == [t |-> "number", n |-> n]

\* !v of JavaScript, negated: undefined, null, 0 and "" are falsy
Truthy(v) ==
    CASE v.t = "undefined" -> FALSE
      [] v.t = "null"      -> FALSE
      [] v.t = "string"    -> v.s # ""
      [] v.t = "number"    -> v.n # 0
      [] OTHER             -> TRUE

\* an object literal { type, fromAccount, toAccount, amount }; a property that
\* the literal does not set reads as undefined
Object(ty, from, to, amt) ==
    [t |-> "object", type |-> ty, fromAccount |-> from, toAccount |-> to, amount |-> amt]

\* obj.key of JavaScript: a property read of a number or a string is undefined
Get(v, key) ==
    IF v.t = "object"
    THEN CASE key = "type"        -> v.type
           [] key = "fromAccount" -> v.fromAccount
           [] key = "toAccount"   -> v.toAccount
           [] key = "amount"      -> v.amount
           [] OTHER               -> Undefined
    ELSE Undefined

\* const { ... } = v throws a TypeError when v is null or undefined
Destructurable(v) == v.t \notin {"null", "undefined"}

(***************************************************************************)
(* Event codec.  A message reaches a trigger as a string holding a JSON    *)
(* document, or as a falsy value.  The model of a string is its kind and,  *)
(* for a JSON object, the members written in it.                           *)
(***************************************************************************)
Keys == <<"type", "fromAccount", "toAccount", "amount">>

EmptyMessage == [k |-> "empty", members |-> <<>>]

MalformedMessage == [k |-> "malformed", members |-> <<>>]

NullMessage == [k |-> "null", members |-> <<>>]

ScalarMessage == [k |-> "scalar", members |-> <<>>]

\* Stringify leaving out every falsy member: null, 0 and "" as well as undefined
StringifyTruthy(body) ==
    LET all == [i \in 1..Len(Keys) |-> [key |-> Keys[i], value |-> Get(body, Keys[i])]]
    IN [k |-> "object", members |-> SelectSeq(all, LAMBDA m : Truthy(m.value))]

\* JSON.stringify of an event body: members whose value is undefined are left out
Stringify(body) ==
    LET all == [i \in 1..Len(Keys) |-> [key |-> Keys[i], value |-> Get(body, Keys[i])]]
    IN [k |-> "object", members |-> SelectSeq(all, LAMBDA m : m.value.t # "undefined")]

\* the value of a member of a parsed JSON object; a key written twice keeps the last
Member(members, key) ==
    LET at == {i \in 1..Len(members) : members[i].key = key}
    IN IF at = {} THEN Undefined
       ELSE members[CHOOSE i \in at : \A j \in at : j <= i].value

\* JSON.parse(message) throws a SyntaxError
ParseThrows(message) == message.k = "malformed"

\* JSON.parse(message) when it does not throw
Parse(message) ==
    CASE message.k = "null"   -> Null
      [] message.k = "scalar" -> Num(7)
      [] message.k = "string" -> Str("document")
      [] OTHER -> Object(Member(message.members, "type"),
                         Member(message.members, "fromAccount"),
                         Member(message.members, "toAccount"),
                         Member(message.members, "amount"))

(***************************************************************************)
(* Log entries (context.log, context.log.error) and loop control.          *)
(***************************************************************************)
Info(text, account, amount) ==
    [level |-> "info", text |-> text, account |-> account, amount |-> amount]

Error(text) ==
    [level |-> "error", text |-> text, account |-> Undefined, amount |-> Undefined]

\* what one pass of a for..of body does: a control transfer and the lines it logs
Ctl(ctl, lines) == [ctl |-> ctl, lines |-> lines]

(***************************************************************************)
(* DepositFunds: the body of the loop up to the simulated deposit.         *)
(***************************************************************************)
\* DepositFundsMessage without the test of the type: any event with toAccount
\* and amount is taken for a StartTransfer
DepositFundsMessageAnyType(message) ==
    IF message.k = "empty"
    THEN Ctl("continue", <<Error("Invalid or undefined message body")>>)
    ELSE IF ParseThrows(message)
    THEN Ctl("continue", <<Error("Error parsing message")>>)
    ELSE LET parsedMessage == Parse(message) IN
         IF ~Destructurable(parsedMessage)
         THEN Ctl("throw", <<>>)
         ELSE LET toAccount == Get(parsedMessage, "toAccount")
                  amount    == Get(parsedMessage, "amount")
                  type      == Get(parsedMessage, "type")
              IN IF ~Truthy(toAccount) \/ ~Truthy(amount)
                 THEN Ctl("continue", <<Error("Missing required properties in message")>>)
                 ELSE Ctl("send", <<Info("Initiating deposit", toAccount, amount)>>)

DepositFundsMessage(message) ==
    IF message.k = "empty"
    THEN Ctl("continue", <<Error("Invalid or undefined message body")>>)
    ELSE IF ParseThrows(message)
    THEN Ctl("continue", <<Error("Error parsing message")>>)
    ELSE LET parsedMessage == Parse(message) IN
         IF ~Destructurable(parsedMessage)
         THEN Ctl("throw", <<>>)
         ELSE LET toAccount == Get(parsedMessage, "toAccount")
                  amount    == Get(parsedMessage, "amount")
                  type      == Get(parsedMessage, "type")
              IN IF type # Str("StartTransfer")
                 THEN Ctl("continue", <<>>)
                 ELSE IF ~Truthy(toAccount) \/ ~Truthy(amount)
                 THEN Ctl("continue", <<Error("Missing required properties in message")>>)
                 ELSE Ctl("send", <<Info("Initiating deposit", toAccount, amount)>>)

\* DepositFundsEvent with the type of the failure event copied from WithdrawFunds
DepositFundsEventCopied(success, message) ==
    LET parsedMessage == Parse(message)
        toAccount == Get(parsedMessage, "toAccount")
        amount    == Get(parsedMessage, "amount")
    IN IF success
       THEN Object(Str("DepositCompleted"), Undefined, toAccount, amount)
       ELSE Object(Str("WithdrawCompensation"), Undefined, toAccount, amount)

\* DepositFundsEvent with the simulated deposit never failing
DepositFundsEventNeverFails(success, message) ==
    LET parsedMessage == Parse(message)
        toAccount == Get(parsedMessage, "toAccount")
        amount    == Get(parsedMessage, "amount")
    IN Object(Str("DepositCompleted"), Undefined, toAccount, amount)

\* the event DepositFunds hands to sendBatch
DepositFundsEvent(success, message) ==
    LET parsedMessage == Parse(message)
        toAccount == Get(parsedMessage, "toAccount")
        amount    == Get(parsedMessage, "amount")
    IN IF success
       THEN Object(Str("DepositCompleted"), Undefined, toAccount, amount)
       ELSE Object(Str("DepositCompensation"), Undefined, toAccount, amount)

(***************************************************************************)
(* WithdrawFunds: the body of the loop up to the simulated withdrawal.     *)
(***************************************************************************)
\* WithdrawFundsMessage going on to the next message when fromAccount or amount
\* is missing, as DepositFunds does
WithdrawFundsMessageContinue(message) ==
    IF message.k = "empty"
    THEN Ctl("continue", <<Error("Invalid or undefined message body")>>)
    ELSE IF ParseThrows(message)
    THEN Ctl("continue", <<Error("Error parsing message")>>)
    ELSE LET parsedMessage == Parse(message) IN
         IF ~Destructurable(parsedMessage)
         THEN Ctl("throw", <<>>)
         ELSE LET fromAccount == Get(parsedMessage, "fromAccount")
                  amount      == Get(parsedMessage, "amount")
                  type        == Get(parsedMessage, "type")
              IN IF type # Str("StartTransfer")
                 THEN Ctl("continue", <<>>)
                 ELSE IF ~Truthy(fromAccount) \/ ~Truthy(amount)
                 THEN Ctl("continue", <<Error("Missing required properties in message")>>)
                 ELSE Ctl("send", <<Info("Initiating withdrawal", fromAccount, amount)>>)

WithdrawFundsMessage(message) ==
    IF message.k = "empty"
    THEN Ctl("continue", <<Error("Invalid or undefined message body")>>)
    ELSE IF ParseThrows(message)
    THEN Ctl("continue", <<Error("Error parsing message")>>)
    ELSE LET parsedMessage == Parse(message) IN
         IF ~Destructurable(parsedMessage)
         THEN Ctl("throw", <<>>)
         ELSE LET fromAccount == Get(parsedMessage, "fromAccount")
                  amount      == Get(parsedMessage, "amount")
                  type        == Get(parsedMessage, "type")
              IN IF type # Str("StartTransfer")
                 THEN Ctl("continue", <<>>)
                 ELSE IF ~Truthy(fromAccount) \/ ~Truthy(amount)
                 THEN Ctl("return", <<Error("Missing required properties in message")>>)
                 ELSE Ctl("send", <<Info("Initiating withdrawal", fromAccount, amount)>>)

\* WithdrawFundsEvent that asks for the withdrawal again when it failed: the
\* failure event is a StartTransfer
WithdrawFundsEventAgain(success, message) ==
    LET parsedMessage == Parse(message)
        fromAccount == Get(parsedMessage, "fromAccount")
        amount      == Get(parsedMessage, "amount")
    IN IF success
       THEN Object(Str("WithdrawCompleted"), fromAccount, Undefined, amount)
       ELSE Object(Str("StartTransfer"), fromAccount, Undefined, amount)

\* WithdrawFundsEvent built by spreading the parsed message: toAccount goes along
WithdrawFundsEventSpread(success, message) ==
    LET parsedMessage == Parse(message)
        fromAccount == Get(parsedMessage, "fromAccount")
        toAccount   == Get(parsedMessage, "toAccount")
        amount      == Get(parsedMessage, "amount")
    IN IF success
       THEN Object(Str("WithdrawCompleted"), fromAccount, toAccount, amount)
       ELSE Object(Str("WithdrawCompensation"), fromAccount, toAccount, amount)

\* the event WithdrawFunds hands to sendBatch
WithdrawFundsEvent(success, message) ==
    LET parsedMessage == Parse(message)
        fromAccount == Get(parsedMessage, "fromAccount")
        amount      == Get(parsedMessage, "amount")
    IN IF success
       THEN Object(Str("WithdrawCompleted"), fromAccount, Undefined, amount)
       ELSE Object(Str("WithdrawCompensation"), fromAccount, Undefined, amount)

(***************************************************************************)
(* CompensateDeposit and CompensateWithdraw: the body of the loop.         *)
(***************************************************************************)
\* CompensateDepositMessage handing an event to sendBatch once the reversal is
\* logged, as the step processors do
CompensateDepositMessageSending(message) ==
    IF message.k = "empty"
    THEN Ctl("continue", <<Error("Invalid or undefined message body")>>)
    ELSE IF ParseThrows(message)
    THEN Ctl("continue", <<Error("Error parsing message")>>)
    ELSE LET parsedMessage == Parse(message) IN
         IF ~Destructurable(parsedMessage)
         THEN Ctl("throw", <<>>)
         ELSE LET toAccount == Get(parsedMessage, "toAccount")
                  amount    == Get(parsedMessage, "amount")
                  type      == Get(parsedMessage, "type")
              IN IF type # Str("DepositCompensation")
                 THEN Ctl("continue", <<>>)
                 ELSE IF ~Truthy(toAccount) \/ ~Truthy(amount)
                 THEN Ctl("continue", <<Error("Missing required properties in message")>>)
                 ELSE Ctl("send", <<Info("Reverting deposit", toAccount, amount)>>)

CompensateDepositMessage(message) ==
    IF message.k = "empty"
    THEN Ctl("continue", <<Error("Invalid or undefined message body")>>)
    ELSE IF ParseThrows(message)
    THEN Ctl("continue", <<Error("Error parsing message")>>)
    ELSE LET parsedMessage == Parse(message) IN
         IF ~Destructurable(parsedMessage)
         THEN Ctl("throw", <<>>)
         ELSE LET toAccount == Get(parsedMessage, "toAccount")
                  amount    == Get(parsedMessage, "amount")
                  type      == Get(parsedMessage, "type")
              IN IF type # Str("DepositCompensation")
                 THEN Ctl("continue", <<>>)
                 ELSE IF ~Truthy(toAccount) \/ ~Truthy(amount)
                 THEN Ctl("continue", <<Error("Missing required properties in message")>>)
                 ELSE Ctl("continue", <<Info("Reverting deposit", toAccount, amount)>>)

CompensateWithdrawMessage(message) ==
    IF message.k = "empty"
    THEN Ctl("continue", <<Error("Invalid or undefined message body")>>)
    ELSE IF ParseThrows(message)
    THEN Ctl("continue", <<Error("Error parsing message")>>)
    ELSE LET parsedMessage == Parse(message) IN
         IF ~Destructurable(parsedMessage)
         THEN Ctl("throw", <<>>)
         ELSE LET toAccount == Get(parsedMessage, "toAccount")
                  amount    == Get(parsedMessage, "amount")
                  type      == Get(parsedMessage, "type")
              IN IF type # Str("WithdrawCompensation")
                 THEN Ctl("continue", <<>>)
                 ELSE IF ~Truthy(toAccount) \/ ~Truthy(amount)
                 THEN Ctl("continue", <<Error("Missing required properties in message")>>)
                 ELSE Ctl("continue", <<Info("Reverting deposit", toAccount, amount)>>)

(***************************************************************************)
(* The four Event Hub triggers.                                            *)
(***************************************************************************)
Processors == {"DepositFunds", "WithdrawFunds"}

Compensators == {"CompensateDeposit", "CompensateWithdraw"}

Consumers == Processors \cup Compensators

MessageBody(c, message) ==
    CASE c = "DepositFunds"       -> DepositFundsMessage(message)
      [] c = "WithdrawFunds"      -> WithdrawFundsMessage(message)
      [] c = "CompensateDeposit"  -> CompensateDepositMessage(message)
      [] c = "CompensateWithdraw" -> CompensateWithdrawMessage(message)

OutcomeEvent(c, success, message) ==
    IF c = "DepositFunds"
    THEN DepositFundsEvent(success, message)
    ELSE WithdrawFundsEvent(success, message)

\* a log line with the message it is about: src is the place of the message in
\* the stream the function is fed from (the index of its event on the bus)
Stamp(lines, src) ==
    [i \in 1..Len(lines) |->
        [level |-> lines[i].level, text |-> lines[i].text, account |-> lines[i].account,
         amount |-> lines[i].amount, src |-> src]]

\* for (const message of eventHubMessages) from message i on, up to the next
\* await or the end of the loop.  at: "send" (sendBatch is awaited for message
\* pos), "end" (the loop ran out), "return", "throw" (caught by the outer catch)
RECURSIVE ForOf(_, _, _, _, _)
ForOf(c, batch, srcs, i, lines) ==
    IF i > Len(batch)
    THEN [at |-> "end", pos |-> i, lines |-> lines]
    ELSE LET r   == MessageBody(c, batch[i])
             out == lines \o Stamp(r.lines, srcs[i])
         IN CASE r.ctl = "continue" -> ForOf(c, batch, srcs, i + 1, out)
              [] r.ctl = "send"     -> [at |-> "send", pos |-> i, lines |-> out]
              [] r.ctl = "return"   -> [at |-> "return", pos |-> i, lines |-> out]
              [] r.ctl = "throw"    ->
                    [at |-> "throw", pos |-> i,
                     lines |-> out \o Stamp(<<Error("Error processing messages")>>, srcs[i])]

(***************************************************************************)
(* State.                                                                  *)
(***************************************************************************)
VARIABLES
    bus,          \* the events the Event Hub accepted, in order; each with the
                  \* function that published it and what it was published for
    http,         \* ClientFunction: the request in hand and its response
    inv,          \* per trigger: the invocation in hand
    calls,        \* per trigger: the sendBatch calls of the invocation in hand
    log,          \* per function: the lines logged so far
    offset,       \* per trigger: how many events of the bus it was handed
    redelivered,  \* how many batches the bus handed to a trigger again
    fed           \* the batch a trigger was handed from outside the saga, if any

vars == <<bus, http, inv, calls, log, offset, redelivered, fed>>

Functions == Consumers \cup {"ClientFunction"}

Idle == [pc |-> "idle", batch |-> <<>>, srcs |-> <<>>, pos |-> 0,
         event |-> Undefined, handle |-> "none", exit |-> "none"]

Init ==
    /\ bus = <<>>
    /\ http = [pc |-> "idle", id |-> 0, body |-> Undefined, status |-> 0,
               sends |-> 0, threw |-> FALSE, event |-> Undefined]
    /\ inv = [c \in Consumers |-> Idle]
    /\ calls = [c \in Consumers |-> <<>>]
    /\ log = [f \in Functions |-> <<>>]
    /\ offset = [c \in Consumers |-> 0]
    /\ redelivered = 0
    /\ fed = [to |-> "none", batch |-> <<>>]

(***************************************************************************)
(* ClientFunction (httpTrigger).                                           *)
(***************************************************************************)
\* the bodies of the requests: no body at all, or an object whose fields are
\* absent, falsy or truthy
Requests ==
    {Undefined} \cup
    {Object(Undefined, f, t, a) :
        f \in {Undefined, Str(""), Str("A")},
        t \in {Undefined, Str(""), Str("B")},
        a \in {Undefined, Num(0), Num(100)}}

\* !fromAccount || !toAccount || !amount
MissingProperties(fromAccount, toAccount, amount) ==
    ~Truthy(fromAccount) \/ ~Truthy(toAccount) \/ ~Truthy(amount)

\* StartTransferEvent with the two accounts in each other's place
StartTransferEventSwapped(fromAccount, toAccount, amount) ==
    Object(Str("StartTransfer"), toAccount, fromAccount, amount)

StartTransferEvent(fromAccount, toAccount, amount) ==
    Object(Str("StartTransfer"), fromAccount, toAccount, amount)

\* httpTrigger up to its return, its throw or its await of sendBatch
HttpRequest(body) ==
    /\ http.pc # "sending"
    /\ http.id < MaxRequests
    /\ LET fromAccount == Get(body, "fromAccount")
           toAccount   == Get(body, "toAccount")
           amount      == Get(body, "amount")
           next        == [http EXCEPT !.id = @ + 1, !.body = body, !.status = 0,
                                       !.sends = 0, !.threw = FALSE, !.event = Undefined]
       IN IF ~Destructurable(body)
          THEN /\ http' = [next EXCEPT !.pc = "done", !.threw = TRUE]
               /\ log' = log
          ELSE IF MissingProperties(fromAccount, toAccount, amount)
          THEN /\ http' = [next EXCEPT !.pc = "done", !.status = 400]
               /\ log' = [log EXCEPT !["ClientFunction"] =
                            Append(@, Stamp(<<Error("Missing required properties in message")>>,
                                            http.id + 1)[1])]
          ELSE /\ http' = [next EXCEPT !.pc = "sending", !.sends = 1,
                                       !.event = StartTransferEvent(fromAccount, toAccount, amount)]
               /\ log' = log
    /\ UNCHANGED <<bus, inv, calls, offset, redelivered, fed>>

\* sendBatch resolves: the event is on the bus, the response is 202
HttpSendOk ==
    /\ http.pc = "sending"
    /\ bus' = Append(bus, [body |-> http.event, by |-> "ClientFunction", cause |-> http.id])
    /\ http' = [http EXCEPT !.pc = "done", !.status = 202]
    /\ UNCHANGED <<inv, calls, log, offset, redelivered, fed>>

\* HttpSendFail with a second sendBatch in the catch, which the bus takes
HttpSendFailRetried ==
    /\ http.pc = "sending"
    /\ bus' = Append(bus, [body |-> http.event, by |-> "ClientFunction", cause |-> http.id])
    /\ http' = [http EXCEPT !.pc = "done", !.status = 500, !.sends = @ + 1]
    /\ log' = [log EXCEPT !["ClientFunction"] =
                 Append(@, Stamp(<<Error("Failed to send event to Event Hub")>>, http.id)[1])]
    /\ UNCHANGED <<inv, calls, offset, redelivered, fed>>

\* sendBatch rejects: the catch logs and answers 500
HttpSendFail ==
    /\ http.pc = "sending"
    /\ http' = [http EXCEPT !.pc = "done", !.status = 500]
    /\ log' = [log EXCEPT !["ClientFunction"] =
                 Append(@, Stamp(<<Error("Failed to send event to Event Hub")>>, http.id)[1])]
    /\ UNCHANGED <<bus, inv, calls, offset, redelivered, fed>>

(***************************************************************************)
(* The Event Hub triggers: one invocation, from await to await.            *)
(***************************************************************************)
\* Resume with close() as the last statement of the try block instead of the
\* finally block: an early return or an exception leaves the producer open
ResumeCloseInTry(c, r, success, produces) ==
    /\ log' = [log EXCEPT ![c] = @ \o r.lines]
    /\ IF r.at = "send"
       THEN LET event == OutcomeEvent(c, success, inv[c].batch[r.pos])
            IN /\ inv' = [inv EXCEPT ![c].pc = "sending", ![c].pos = r.pos, ![c].event = event]
               /\ calls' = [calls EXCEPT ![c] =
                              Append(produces, [pos |-> r.pos, src |-> inv[c].srcs[r.pos],
                                                event |-> event, result |-> "pending"])]
       ELSE IF r.at \in {"return", "throw"}
       THEN /\ inv' = [inv EXCEPT ![c] = [Idle EXCEPT !.handle = "open"]]
            /\ calls' = [calls EXCEPT ![c] = <<>>]
       ELSE /\ inv' = [inv EXCEPT ![c].pc = "closing", ![c].pos = r.pos,
                                  ![c].event = Undefined, ![c].exit = r.at]
            /\ calls' = [calls EXCEPT ![c] = produces]

\* the loop ran from message i to its next stop r; success is Math.random() > 0.2
Resume(c, r, success, produces) ==
    /\ log' = [log EXCEPT ![c] = @ \o r.lines]
    /\ IF r.at = "send"
       THEN LET event == OutcomeEvent(c, success, inv[c].batch[r.pos])
            IN /\ inv' = [inv EXCEPT ![c].pc = "sending", ![c].pos = r.pos, ![c].event = event]
               /\ calls' = [calls EXCEPT ![c] =
                              Append(produces, [pos |-> r.pos, src |-> inv[c].srcs[r.pos],
                                                event |-> event, result |-> "pending"])]
       ELSE /\ inv' = [inv EXCEPT ![c].pc = "closing", ![c].pos = r.pos,
                                  ![c].event = Undefined, ![c].exit = r.at]
            /\ calls' = [calls EXCEPT ![c] = produces]

\* Trigger with sendBatch not awaited: the loop goes on to the messages after
\* the first sendBatch while that call is pending
TriggerNoAwait(c, batch, srcs, success) ==
    LET r == ForOf(c, batch, srcs, 1, <<>>) IN
    /\ log' = [log EXCEPT ![c] = @ \o r.lines \o
                   (IF r.at = "send"
                    THEN ForOf(c, batch, srcs, r.pos + 1, <<>>).lines
                    ELSE <<>>)]
    /\ IF r.at = "send"
       THEN LET event == OutcomeEvent(c, success, batch[r.pos])
            IN /\ inv' = [inv EXCEPT ![c] = [Idle EXCEPT !.pc = "sending", !.batch = batch,
                                               !.srcs = srcs, !.pos = r.pos, !.event = event,
                                               !.handle = "open"]]
               /\ calls' = [calls EXCEPT ![c] =
                              <<[pos |-> r.pos, src |-> srcs[r.pos], event |-> event,
                                 result |-> "pending"]>>]
       ELSE IF c \in Compensators
       THEN /\ inv' = [inv EXCEPT ![c] = Idle]
            /\ calls' = [calls EXCEPT ![c] = <<>>]
       ELSE /\ inv' = [inv EXCEPT ![c] = [Idle EXCEPT !.pc = "closing", !.batch = batch,
                                            !.srcs = srcs, !.pos = r.pos, !.exit = r.at,
                                            !.handle = "open"]]
            /\ calls' = [calls EXCEPT ![c] = <<>>]

\* the start of an invocation on a batch: the loop runs up to its first await.
\* A step processor creates its producer first and closes it at the end; a
\* compensator has neither producer nor await, and its invocation is over
\* when the loop is
Trigger(c, batch, srcs, success) ==
    LET r == ForOf(c, batch, srcs, 1, <<>>) IN
    /\ log' = [log EXCEPT ![c] = @ \o r.lines]
    /\ IF r.at = "send"
       THEN LET event == OutcomeEvent(c, success, batch[r.pos])
            IN /\ inv' = [inv EXCEPT ![c] = [Idle EXCEPT !.pc = "sending", !.batch = batch,
                                               !.srcs = srcs, !.pos = r.pos, !.event = event,
                                               !.handle = "open"]]
               /\ calls' = [calls EXCEPT ![c] =
                              <<[pos |-> r.pos, src |-> srcs[r.pos], event |-> event,
                                 result |-> "pending"]>>]
       ELSE IF c \in Compensators
       THEN /\ inv' = [inv EXCEPT ![c] = Idle]
            /\ calls' = [calls EXCEPT ![c] = <<>>]
       ELSE /\ inv' = [inv EXCEPT ![c] = [Idle EXCEPT !.pc = "closing", !.batch = batch,
                                            !.srcs = srcs, !.pos = r.pos, !.exit = r.at,
                                            !.handle = "open"]]
            /\ calls' = [calls EXCEPT ![c] = <<>>]

\* the sendBatch call in hand, settled
Settled(c, result) ==
    [calls[c] EXCEPT ![Len(calls[c])].result = result]

SuccessLine(c) ==
    IF inv[c].event.type \in {Str("DepositCompleted"), Str("WithdrawCompleted")}
    THEN Info("succeeded", Undefined, Undefined)
    ELSE Error("failed. Compensation event emitted.")

\* SendBatchOk with the event twice in the batch handed to sendBatch
SendBatchOkTwice(c, success) ==
    /\ inv[c].pc = "sending"
    /\ LET sent == [body |-> inv[c].event, by |-> c, cause |-> inv[c].srcs[inv[c].pos]]
       IN bus' = Append(Append(bus, sent), sent)
    /\ LET said == Stamp(<<SuccessLine(c)>>, inv[c].srcs[inv[c].pos])
           r    == ForOf(c, inv[c].batch, inv[c].srcs, inv[c].pos + 1, said)
       IN Resume(c, r, success, Settled(c, "ok"))
    /\ UNCHANGED <<http, offset, redelivered, fed>>

\* await producerClient.sendBatch([event]) resolves
SendBatchOk(c, success) ==
    /\ inv[c].pc = "sending"
    /\ bus' = Append(bus, [body |-> inv[c].event, by |-> c, cause |-> inv[c].srcs[inv[c].pos]])
    /\ LET said == Stamp(<<SuccessLine(c)>>, inv[c].srcs[inv[c].pos])
           r    == ForOf(c, inv[c].batch, inv[c].srcs, inv[c].pos + 1, said)
       IN Resume(c, r, success, Settled(c, "ok"))
    /\ UNCHANGED <<http, offset, redelivered, fed>>

\* SendBatchFail with the loop taking up the same message again after the catch
SendBatchFailRetry(c, success) ==
    /\ inv[c].pc = "sending"
    /\ LET said == Stamp(<<Error("Error sending event for account")>>,
                         inv[c].srcs[inv[c].pos])
           r    == ForOf(c, inv[c].batch, inv[c].srcs, inv[c].pos, said)
       IN Resume(c, r, success, Settled(c, "failed"))
    /\ UNCHANGED <<bus, http, offset, redelivered, fed>>

\* await producerClient.sendBatch([event]) rejects: the inner catch logs
SendBatchFail(c, success) ==
    /\ inv[c].pc = "sending"
    /\ LET said == Stamp(<<Error("Error sending event for account")>>,
                         inv[c].srcs[inv[c].pos])
           r    == ForOf(c, inv[c].batch, inv[c].srcs, inv[c].pos + 1, said)
       IN Resume(c, r, success, Settled(c, "failed"))
    /\ UNCHANGED <<bus, http, offset, redelivered, fed>>

\* finally { await producerClient.close() }: the producer is closed and the
\* invocation is over
Close(c) ==
    /\ inv[c].pc = "closing"
    /\ inv' = [inv EXCEPT ![c] = Idle]
    /\ calls' = [calls EXCEPT ![c] = <<>>]
    /\ UNCHANGED <<bus, http, log, offset, redelivered, fed>>

(***************************************************************************)
(* The bus hands batches to the triggers.                                  *)
(***************************************************************************)
\* the transport envelope: the JSON document of an event, written as a JSON
\* string value
Envelope(document) == [k |-> "string", members |-> <<>>, inner |-> document]

\* the first parse pass: the string value an envelope holds
StripEnvelope(envelope) ==
    IF envelope.k = "string" THEN envelope.inner ELSE envelope

\* the string a trigger receives for an event of the bus: the envelope is
\* stripped before the trigger runs, the trigger does the second parse pass
Wire(body) == StripEnvelope(Envelope(Stringify(body)))

\* the next n events of the bus, handed to trigger c; handed again later when
\* the batch is not checkpointed (at-least-once delivery)
Deliver(c, n, again, success) ==
    /\ inv[c].pc = "idle"
    /\ offset[c] + n <= Len(bus)
    /\ IF again
       THEN /\ redelivered < MaxRedeliver
            /\ redelivered' = redelivered + 1
            /\ offset' = offset
       ELSE /\ redelivered' = redelivered
            /\ offset' = [offset EXCEPT ![c] = @ + n]
    /\ Trigger(c, [i \in 1..n |-> Wire(bus[offset[c] + i].body)],
                  [i \in 1..n |-> offset[c] + i], success)
    /\ UNCHANGED <<bus, http, fed>>

\* the messages any producer of the hub may put in a batch
EventTypes == {"StartTransfer", "DepositCompleted", "DepositCompensation",
               "WithdrawCompleted", "WithdrawCompensation"}

\* the account and amount fields of a message: all absent, all there, one
\* absent, empty accounts, amount 0, other accounts and another amount
FieldChoices ==
    {<<Undefined, Undefined, Undefined>>,
     <<Str("A"), Str("B"), Num(100)>>,
     <<Undefined, Str("B"), Num(100)>>,
     <<Str("A"), Undefined, Num(100)>>,
     <<Str("A"), Str("B"), Undefined>>,
     <<Str("A"), Str("B"), Num(0)>>,
     <<Str(""), Str(""), Num(100)>>,
     <<Str("C"), Str("D"), Num(50)>>}

Messages ==
    {EmptyMessage, MalformedMessage, NullMessage, ScalarMessage} \cup
    {Stringify(Object(ty, f[1], f[2], f[3])) :
        ty \in {Undefined} \cup {Str(e) : e \in EventTypes},
        f \in FieldChoices}

RECURSIVE Batches(_)
Batches(n) ==
    IF n = 0 THEN {<<>>}
    ELSE LET shorter == Batches(n - 1)
         IN shorter \cup {Append(b, m) : b \in {x \in shorter : Len(x) = n - 1}, m \in Messages}

\* the batches of at most MaxBatch messages
AllBatches == Batches(MaxBatch) \ {<<>>}

\* one invocation of trigger c on an arbitrary batch
Inject(c, batch, success) ==
    /\ Trigger(c, batch, [i \in 1..Len(batch) |-> i], success)
    /\ fed' = [to |-> c, batch |-> batch]
    /\ UNCHANGED <<bus, http, offset, redelivered>>

(***************************************************************************)
(* Specifications.                                                         *)
(***************************************************************************)
\* the saga: requests, the bus, the four triggers fed by the bus
Next ==
    \/ /\ http.id < MaxTransfers
       /\ \E body \in Requests : HttpRequest(body)
    \/ HttpSendOk
    \/ HttpSendFail
    \/ \E c \in Consumers, n \in 1..MaxBatch, again \in BOOLEAN, success \in BOOLEAN :
          Deliver(c, n, again, success)
    \/ \E c \in Consumers, success \in BOOLEAN : SendBatchOk(c, success)
    \/ \E c \in Consumers, success \in BOOLEAN : SendBatchFail(c, success)
    \/ \E c \in Consumers : Close(c)

Spec == Init /\ [][Next]_vars

\* ClientFunction alone, one request after the other
NextClient ==
    \/ \E body \in Requests : HttpRequest(body)
    \/ HttpSendOk
    \/ HttpSendFail

SpecClient == Init /\ [][NextClient]_vars

\* one trigger, one batch of arbitrary messages
NextBatch ==
    \/ /\ fed.to = "none"
       /\ \E c \in Consumers, batch \in AllBatches, success \in BOOLEAN :
             Inject(c, batch, success)
    \/ \E c \in Consumers, success \in BOOLEAN : SendBatchOk(c, success)
    \/ \E c \in Consumers, success \in BOOLEAN : SendBatchFail(c, success)
    \/ \E c \in Consumers : Close(c)

SpecBatch == Init /\ [][NextBatch]_vars

\* the events any producer of the hub may publish: every event type, with the
\* account and amount fields there, absent or falsy
SagaEvents ==
    {Object(Str(ty), f[1], f[2], f[3]) : ty \in EventTypes, f \in FieldChoices}

\* a producer of the hub publishes an event
Produce(event) ==
    /\ Cardinality({k \in 1..Len(bus) : bus[k].by = "producer"}) < MaxProduced
    /\ bus' = Append(bus, [body |-> event, by |-> "producer", cause |-> Len(bus) + 1])
    /\ UNCHANGED <<http, inv, calls, log, offset, redelivered, fed>>

\* the event codec: any event, published, carried by the bus to each step
\* processor, once and in a batch of its own, and decoded there
NextCodec ==
    \/ \E event \in SagaEvents : Produce(event)
    \/ \E c \in Processors, success \in BOOLEAN : Deliver(c, 1, FALSE, success)
    \/ \E c \in Consumers, success \in BOOLEAN : SendBatchOk(c, success)
    \/ \E c \in Consumers, success \in BOOLEAN : SendBatchFail(c, success)
    \/ \E c \in Consumers : Close(c)

SpecCodec == Init /\ [][NextCodec]_vars

TypeOK ==
    /\ http.pc \in {"idle", "sending", "done"}
    /\ \A c \in Consumers : inv[c].pc \in {"idle", "sending", "closing"}

(***************************************************************************)
(* What the claims speak of.                                               *)
(***************************************************************************)
\* the field of a message that is a JSON object, as written in the message
Field(message, key) ==
    IF message.k = "object" THEN Member(message.members, key) ELSE Undefined

\* a message of the given type whose account field and amount are truthy
WellFormed(message, type, account) ==
    /\ Field(message, "type") = Str(type)
    /\ Truthy(Field(message, account))
    /\ Truthy(Field(message, "amount"))

\* the places on the bus of the events trigger c published for message src
Published(c, src) ==
    {k \in 1..Len(bus) : bus[k].by = c /\ bus[k].cause = src}

\* the sendBatch calls trigger c made for message src in the invocation in hand
Calls(c, src) ==
    {k \in 1..Len(calls[c]) : calls[c][k].src = src}

\* the lines with the given text that function f logged about message src
Lines(f, text, src) ==
    {k \in 1..Len(log[f]) : log[f][k].text = text /\ log[f][k].src = src}

\* the one invocation of trigger c on a batch from outside has left its loop
LoopOver(c) ==
    /\ fed.to = c
    /\ inv[c].pc = IF c \in Processors THEN "closing" ELSE "idle"

\* no message before place i of the batch decodes to null
NoNullBefore(batch, i) == \A j \in 1..(i - 1) : batch[j].k # "null"

C2_ExactlyOneOutcome ==
    LoopOver("WithdrawFunds") =>
        \A i \in 1..Len(fed.batch) :
            WellFormed(fed.batch[i], "StartTransfer", "fromAccount") =>
                /\ Cardinality(Calls("WithdrawFunds", i)) = 1
                /\ \A k \in Calls("WithdrawFunds", i) :
                      calls["WithdrawFunds"][k].event.type \in
                          {Str("WithdrawCompleted"), Str("WithdrawCompensation")}
                /\ Cardinality(Published("WithdrawFunds", i)) <= 1

(***************************************************************************)
(* C3. Every trigger, one batch.                                           *)
(***************************************************************************)
\* trigger c acts on the message when the message is its whole batch
ActsOnAlone(c, message) ==
    LET r == ForOf(c, <<message>>, <<1>>, 1, <<>>)
    IN IF c \in Processors
       THEN r.at = "send"
       ELSE \E k \in 1..Len(r.lines) : r.lines[k].level = "info"

\* trigger c acted on message i of its batch: a processor called sendBatch for
\* it, a compensator logged its reversal
ActedOn(c, i) ==
    IF c \in Processors
    THEN Calls(c, i) # {}
    ELSE \E k \in 1..Len(log[c]) : log[c][k].level = "info" /\ log[c][k].src = i

\* C3 as stated: in every trigger, when the loop over a batch of JSON objects,
\* empty messages and undecodable messages is over, every message the trigger
\* acts on when handed alone was acted on in the batch, whatever empty,
\* undecodable or incomplete messages stand before or after it.
C3_SiblingsProcessed ==
    \A c \in Consumers :
        (/\ LoopOver(c)
         /\ \A j \in 1..Len(fed.batch) : fed.batch[j].k \in {"empty", "malformed", "object"})
        => \A i \in 1..Len(fed.batch) :
              ActsOnAlone(c, fed.batch[i]) => ActedOn(c, i)

(***************************************************************************)
(* C4. The saga: a failed step and a completed step of one transfer.       *)
(***************************************************************************)
\* nothing is in flight and every trigger was handed every event of the bus
Quiescent ==
    /\ http.pc # "sending"
    /\ \A c \in Consumers : inv[c].pc = "idle" /\ offset[c] = Len(bus)

\* the events of the given type that processor c published for the
\* StartTransfer at place k of the bus
Outcome(c, k, type) ==
    {j \in Published(c, k) : bus[j].body.type = Str(type)}

\* a compensator logged a reversal on that account for that amount
ReversalLogged(account, amount) ==
    \E c \in Compensators : \E i \in 1..Len(log[c]) :
        /\ log[c][i].level = "info"
        /\ log[c][i].account = account
        /\ log[c][i].amount = amount

\* C4 as stated: once nothing is left to deliver or to run, for every
\* StartTransfer of the bus for which one processor published its Compensation
\* event and the other its Completed event, a compensator has logged the
\* reversal of the completed step: of the withdrawal from fromAccount when the
\* deposit failed, of the deposit to toAccount when the withdrawal failed.
C4_CompletedStepReverted ==
    Quiescent =>
        \A k \in 1..Len(bus) :
            bus[k].body.type = Str("StartTransfer") =>
                /\ (/\ Outcome("DepositFunds", k, "DepositCompensation") # {}
                    /\ Outcome("WithdrawFunds", k, "WithdrawCompleted") # {})
                   => ReversalLogged(bus[k].body.fromAccount, bus[k].body.amount)
                /\ (/\ Outcome("WithdrawFunds", k, "WithdrawCompensation") # {}
                    /\ Outcome("DepositFunds", k, "DepositCompleted") # {})
                   => ReversalLogged(bus[k].body.toAccount, bus[k].body.amount)

(***************************************************************************)
(* C5. CompensateDeposit, one batch.                                       *)
(***************************************************************************)
\* C5 as stated: after CompensateDeposit ran on a batch, every
\* DepositCompensation of the batch with truthy toAccount and amount has one
\* reversal line, with its account and its amount, and a message of any other
\* type has none.
C5_ReversalPerCompensation ==
    LoopOver("CompensateDeposit") =>
        \A i \in 1..Len(fed.batch) :
            LET lines == Lines("CompensateDeposit", "Reverting deposit", i) IN
            /\ WellFormed(fed.batch[i], "DepositCompensation", "toAccount") =>
                  /\ Cardinality(lines) = 1
                  /\ \A k \in lines :
                        /\ log["CompensateDeposit"][k].account = Field(fed.batch[i], "toAccount")
                        /\ log["CompensateDeposit"][k].amount = Field(fed.batch[i], "amount")
            /\ Field(fed.batch[i], "type") # Str("DepositCompensation") => lines = {}

(***************************************************************************)
(* C6. WithdrawCompensation, from WithdrawFunds to CompensateWithdraw.     *)
(***************************************************************************)
\* C6 as stated: every WithdrawCompensation that WithdrawFunds put on the bus
\* and that CompensateWithdraw was handed has a reversal line of
\* CompensateWithdraw, with its account and its amount.
C6_WithdrawCompensationHandled ==
    \A k \in 1..Len(bus) :
        (/\ bus[k].by = "WithdrawFunds"
         /\ bus[k].body.type = Str("WithdrawCompensation")
         /\ offset["CompensateWithdraw"] >= k)
        => \E i \in Lines("CompensateWithdraw", "Reverting deposit", k) :
              /\ log["CompensateWithdraw"][i].account = bus[k].body.fromAccount
              /\ log["CompensateWithdraw"][i].amount = bus[k].body.amount

(***************************************************************************)
(* C7, C8, C9. ClientFunction.                                             *)
(***************************************************************************)
\* the request in hand carries truthy fromAccount, toAccount and amount
ValidRequest ==
    /\ Truthy(Get(http.body, "fromAccount"))
    /\ Truthy(Get(http.body, "toAccount"))
    /\ Truthy(Get(http.body, "amount"))

\* the places on the bus of the events published for the request in hand
RequestEvents == Published("ClientFunction", http.id)

\* C7 as stated: a request in which fromAccount, toAccount or amount is absent
\* or falsy is answered 400, without a sendBatch call and without an event on
\* the bus.
C7_InvalidRejected ==
    (http.pc = "done" /\ ~ValidRequest) =>
        /\ http.status = 400
        /\ http.sends = 0
        /\ RequestEvents = {}

\* C8: for a valid request ClientFunction makes exactly one sendBatch call,
\* with one StartTransfer carrying the request's fromAccount, toAccount and
\* amount, and it answers 202 only once that event is on the bus; no second
\* event is ever published for the request.
C8_OnePublishPerValidRequest ==
    (http.pc # "idle" /\ ValidRequest) =>
        /\ http.sends = 1
        /\ http.event = Object(Str("StartTransfer"), http.body.fromAccount,
                               http.body.toAccount, http.body.amount)
        /\ Cardinality(RequestEvents) <= 1
        /\ \A k \in RequestEvents : bus[k].body = http.event
        /\ http.status = 202 => Cardinality(RequestEvents) = 1
        /\ http.pc = "done" => http.status \in {202, 500}

\* a valid request answered 202, its StartTransfer on the bus
C8_Witness ==
    /\ http.pc = "done"
    /\ ValidRequest
    /\ http.status = 202
    /\ Cardinality(RequestEvents) = 1

\* ClientFunction logged that sendBatch rejected for the request in hand
PublishFailed == Lines("ClientFunction", "Failed to send event to Event Hub", http.id) # {}

\* C9: when sendBatch rejects for a valid request the answer is 500 and
\* sendBatch was called once; an answer of 500 is given only then, and no
\* StartTransfer of that request is on the bus.
C9_PublishFailureIs500 ==
    /\ (http.pc = "done" /\ PublishFailed) => (http.status = 500 /\ http.sends = 1)
    /\ http.status = 500 =>
          /\ ValidRequest
          /\ PublishFailed
          /\ http.sends = 1
          /\ RequestEvents = {}

\* a valid request whose publish rejected, answered 500
C9_Witness ==
    /\ http.pc = "done"
    /\ ValidRequest
    /\ PublishFailed
    /\ http.status = 500

(***************************************************************************)
(* C10. CompensateDeposit handed one event twice.                          *)
(***************************************************************************)
\* C10 as stated: CompensateDeposit logs at most one reversal for one event of
\* the bus, however often the bus hands it that event.
C10_AtMostOneReversal ==
    \A k \in 1..Len(bus) :
        Cardinality(Lines("CompensateDeposit", "Reverting deposit", k)) <= 1

(***************************************************************************)
(* C11. A processor handed one StartTransfer twice.                        *)
(***************************************************************************)
\* C11 as stated: a processor publishes at most one outcome event for one
\* StartTransfer of the bus, however often the bus hands it that event; so
\* never a Completed event for one delivery and a Compensation event for
\* another.
C11_AtMostOneOutcomePerTransfer ==
    \A c \in Processors : \A k \in 1..Len(bus) :
        bus[k].body.type = Str("StartTransfer") =>
            Cardinality(Published(c, k)) <= 1

(***************************************************************************)
(* C12. Round trip of the event codec.                                     *)
(***************************************************************************)
\* the message at place i of the batch trigger c holds, decoded by the trigger
Decoded(c, i) == Parse(inv[c].batch[i])

C13_CompensatorPublishesNothing ==
    fed.to \in Compensators =>
        /\ bus = <<>>
        /\ calls[fed.to] = <<>>
        /\ inv[fed.to].pc = "idle"

\* the Deposit Compensator went through a batch and logged a reversal
C13_Witness ==
    /\ fed.to = "CompensateDeposit"
    /\ Len(fed.batch) = MaxBatch
    /\ \E k \in 1..Len(fed.batch) : Lines("CompensateDeposit", "Reverting deposit", k) # {}
    /\ bus = <<>>

(***************************************************************************)
(* C14. The producer is closed on every way out of an invocation.          *)
(***************************************************************************)
\* C14: a step processor holds an open producer only while its invocation is
\* at an await; whichever way the loop is left (its end, the return of
\* WithdrawFunds, after a rejected sendBatch, an exception) the invocation
\* goes on to close(), and the producer is given up by close() alone.
C14_ProducerClosed ==
    [][\A c \in Processors :
          /\ inv'[c].handle = "open" => inv'[c].pc \in {"sending", "closing"}
          /\ inv'[c].pc # "idle" => inv'[c].handle = "open"
          /\ (inv[c].pc = "sending" /\ inv'[c].pc # "sending") =>
                 (inv'[c].pc = "closing" /\ inv'[c].exit \in {"end", "return", "throw"})
          /\ (inv[c].handle = "open" /\ inv'[c].handle # "open") =>
                 inv[c].pc = "closing"]_vars

\* WithdrawFunds published an outcome, then returned on a message without
\* amount, and its invocation is over with the producer closed
C14_Witness ==
    /\ fed.to = "WithdrawFunds"
    /\ Published("WithdrawFunds", 1) # {}
    /\ Lines("WithdrawFunds", "Missing required properties in message", 2) # {}
    /\ inv["WithdrawFunds"].pc = "idle"
    /\ inv["WithdrawFunds"].handle = "none"

(***************************************************************************)
(* C15. The type of an event tells each trigger whether the event is its   *)
(* own.                                                                    *)
(***************************************************************************)
\* the event type trigger c acts on
Owned(c) ==
    CASE c \in Processors         -> Str("StartTransfer")
      [] c = "CompensateDeposit"  -> Str("DepositCompensation")
      [] c = "CompensateWithdraw" -> Str("WithdrawCompensation")

\* a JSON object whose type is not the one trigger c acts on
NotOwned(c, message) ==
    message.k = "object" /\ Field(message, "type") # Owned(c)

\* trigger c logged a line about message i or called sendBatch for it
Examined(c, i) ==
    \/ \E k \in 1..Len(log[c]) : log[c][k].src = i
    \/ Calls(c, i) # {}

\* C15: when the loop of a trigger over a batch is over, a message whose type
\* is not the trigger's own has no sendBatch call, no event on the bus and no
\* line logged, neither reversal nor error; and a message of the trigger's own
\* type that comes after such messages only has been examined.
C15_ForeignTypeIgnored ==
    \A c \in Consumers :
        LoopOver(c) =>
            \A i \in 1..Len(fed.batch) :
                /\ NotOwned(c, fed.batch[i]) =>
                      /\ Calls(c, i) = {}
                      /\ Published(c, i) = {}
                      /\ ~Examined(c, i)
                /\ ( /\ \A j \in 1..(i - 1) : NotOwned(c, fed.batch[j])
                     /\ Field(fed.batch[i], "type") = Owned(c) )
                      => Examined(c, i)

\* DepositFunds skipped a DepositCompleted event with toAccount and amount
\* and went on to publish for the StartTransfer after it
C15_Witness ==
    /\ LoopOver("DepositFunds")
    /\ Len(fed.batch) = 2
    /\ WellFormed(fed.batch[1], "DepositCompleted", "toAccount")
    /\ WellFormed(fed.batch[2], "StartTransfer", "toAccount")
    /\ ~Examined("DepositFunds", 1)
    /\ Published("DepositFunds", 2) # {}

(***************************************************************************)
(* C16. The saga comes to an end.                                          *)
(***************************************************************************)
\* the event types processor c publishes
Outcomes(c) ==
    IF c = "DepositFunds"
    THEN {Str("DepositCompleted"), Str("DepositCompensation")}
    ELSE {Str("WithdrawCompleted"), Str("WithdrawCompensation")}

\* the StartTransfer events ClientFunction published
Transfers == {k \in 1..Len(bus) : bus[k].by = "ClientFunction"}

\* no request is left to accept, no publish is pending, every trigger was
\* handed every event of the bus
Exhausted ==
    /\ Quiescent
    /\ http.id = MaxTransfers

\* C16: the events of the bus form chains of length two at most.  ClientFunction
\* publishes StartTransfer events only; a processor publishes outcome events
\* only, each for a StartTransfer of ClientFunction; no event comes from a
\* compensator.  So a processor publishes at most once for each time it is
\* handed a StartTransfer, and once every trigger was handed every event no
\* step publishes anything.
C16_SagaEnds ==
    /\ \A k \in 1..Len(bus) :
          /\ bus[k].by \in Processors \cup {"ClientFunction"}
          /\ bus[k].by = "ClientFunction" => bus[k].body.type = Str("StartTransfer")
          /\ bus[k].by \in Processors =>
                /\ bus[k].body.type \in Outcomes(bus[k].by)
                /\ bus[k].cause \in Transfers
                /\ bus[k].cause < k
    /\ Len(bus) <= Cardinality(Transfers) * (1 + Cardinality(Processors) + redelivered)
    /\ Exhausted => ~ENABLED (Next /\ bus' # bus)

\* every trigger was handed every event, a redelivery included; both
\* processors published, a compensator logged a reversal
C16_Witness ==
    /\ Exhausted
    /\ redelivered = MaxRedeliver
    /\ \A c \in Processors : \E k \in 1..Len(bus) : bus[k].by = c
    /\ \E c \in Compensators : log[c] # <<>>

(***************************************************************************)
(* C17. WithdrawFunds gives up its batch at a StartTransfer without        *)
(* fromAccount or amount.                                                  *)
(***************************************************************************)
\* a StartTransfer whose fromAccount or amount is missing or falsy
InvalidWithdraw(message) ==
    /\ Field(message, "type") = Str("StartTransfer")
    /\ ~Truthy(Field(message, "fromAccount")) \/ ~Truthy(Field(message, "amount"))

\* C17: when WithdrawFunds has left its loop, and message i is the first
\* StartTransfer of the batch without fromAccount or amount (no message before
\* it decoding to null), then the loop was left by the return at message i: the
\* error is logged, no message after i was examined (nothing logged, no
\* sendBatch call, no event), and each sendBatch for a message before i that
\* resolved has its event on the bus.
C17_WithdrawAbortsBatch ==
    LoopOver("WithdrawFunds") =>
        \A i \in 1..Len(fed.batch) :
            ( /\ InvalidWithdraw(fed.batch[i])
              /\ \A j \in 1..(i - 1) : ~InvalidWithdraw(fed.batch[j])
              /\ NoNullBefore(fed.batch, i) )
            => /\ Lines("WithdrawFunds", "Missing required properties in message", i) # {}
               /\ inv["WithdrawFunds"].exit = "return"
               /\ inv["WithdrawFunds"].pos = i
               /\ \A j \in (i + 1)..Len(fed.batch) :
                     ~Examined("WithdrawFunds", j) /\ Published("WithdrawFunds", j) = {}
               /\ \A j \in 1..(i - 1) : \A k \in Calls("WithdrawFunds", j) :
                     calls["WithdrawFunds"][k].result = "ok" =>
                         Published("WithdrawFunds", j) # {}

\* WithdrawFunds returned at a StartTransfer without amount and left the well
\* formed StartTransfer after it alone
C17_Witness ==
    /\ LoopOver("WithdrawFunds")
    /\ Len(fed.batch) = 2
    /\ InvalidWithdraw(fed.batch[1])
    /\ WellFormed(fed.batch[2], "StartTransfer", "fromAccount")
    /\ inv["WithdrawFunds"].exit = "return"
    /\ ~Examined("WithdrawFunds", 2)

(***************************************************************************)
(* C18. A rejected sendBatch in a step processor.                          *)
(***************************************************************************)
\* the sendBatch calls of the invocation in hand that were rejected
Rejected(c) == {k \in 1..Len(calls[c]) : calls[c][k].result = "failed"}

\* C18: when a step processor has left its loop, each message i whose
\* sendBatch was rejected has the error logged, one sendBatch call and no
\* more, and no event on the bus; the loop went past it, and a well formed
\* StartTransfer right after it got its own sendBatch call, whose event is on
\* the bus when the call resolved.
C18_RejectedPublish ==
    \A c \in Processors :
        LoopOver(c) =>
            \A k \in Rejected(c) :
                LET i == calls[c][k].src IN
                /\ Lines(c, "Error sending event for account", i) # {}
                /\ Cardinality(Calls(c, i)) = 1
                /\ Published(c, i) = {}
                /\ inv[c].pos > i
                /\ ( /\ i < Len(fed.batch)
                     /\ WellFormed(fed.batch[i + 1], "StartTransfer",
                                   IF c = "DepositFunds" THEN "toAccount" ELSE "fromAccount") )
                   => /\ Calls(c, i + 1) # {}
                      /\ \A n \in Calls(c, i + 1) :
                            calls[c][n].result = "ok" => Published(c, i + 1) # {}

\* DepositFunds: the sendBatch for the first StartTransfer was rejected, the
\* one for the second resolved and its event is on the bus
C18_Witness ==
    /\ LoopOver("DepositFunds")
    /\ Len(fed.batch) = 2
    /\ Rejected("DepositFunds") # {}
    /\ Published("DepositFunds", 1) = {}
    /\ Published("DepositFunds", 2) # {}

(***************************************************************************)
(* C19. What an outcome event carries.                                     *)
(***************************************************************************)
\* C19: every event a step processor published was published for a
\* StartTransfer of its batch and has that message's amount and that message's
\* account: toAccount for DepositFunds, fromAccount for WithdrawFunds; the
\* other account is not in the event.
C19_OutcomeCarriesAccountAndAmount ==
    \A k \in 1..Len(bus) :
        bus[k].by = fed.to =>
            LET message == fed.batch[bus[k].cause]
                event   == bus[k].body
            IN /\ Field(message, "type") = Str("StartTransfer")
               /\ event.type \in Outcomes(bus[k].by)
               /\ event.amount = Field(message, "amount")
               /\ IF bus[k].by = "DepositFunds"
                  THEN /\ event.toAccount = Field(message, "toAccount")
                       /\ event.fromAccount = Undefined
                       /\ Field(Wire(event), "fromAccount") = Undefined
                  ELSE /\ event.fromAccount = Field(message, "fromAccount")
                       /\ event.toAccount = Undefined
                       /\ Field(Wire(event), "toAccount") = Undefined

\* WithdrawFunds published for two StartTransfer messages with different
\* accounts and amounts
C19_Witness ==
    /\ fed.to = "WithdrawFunds"
    /\ Len(bus) = 2
    /\ Field(fed.batch[1], "fromAccount") = Str("A")
    /\ Field(fed.batch[2], "fromAccount") = Str("C")
    /\ Field(fed.batch[2], "toAccount") = Str("D")
    /\ bus[1].body.fromAccount = Str("A") /\ bus[1].body.amount = Num(100)
    /\ bus[2].body.fromAccount = Str("C") /\ bus[2].body.amount = Num(50)

(***************************************************************************)
(* C20. A step processor takes the messages of a batch one after the       *)
(* other.                                                                  *)
(***************************************************************************)
\* the sendBatch calls of the invocation in hand that are not settled
Pending(c) == {k \in 1..Len(calls[c]) : calls[c][k].result = "pending"}

\* the invocation of processor c, between two steps
InOrder(c) ==
    /\ \A k, l \in 1..Len(calls[c]) : k < l => calls[c][k].src < calls[c][l].src
    /\ \A k, l \in 1..Len(bus) :
          (k < l /\ bus[k].by = c /\ bus[l].by = c) => bus[k].cause < bus[l].cause
    /\ Pending(c) = IF inv[c].pc = "sending" THEN {Len(calls[c])} ELSE {}
    /\ inv[c].pc = "sending" =>
          /\ inv[c].handle = "open"
          /\ calls[c][Len(calls[c])].src = inv[c].srcs[inv[c].pos]
          /\ \A j \in (inv[c].pos + 1)..Len(inv[c].batch) : ~Examined(c, inv[c].srcs[j])

\* C20: in an invocation of a step processor the sendBatch calls, and the
\* events on the bus, are in the order of their messages; while a sendBatch is
\* pending it is the only one, the producer is open, and no message after the
\* one it is for has been examined; an event comes onto the bus only as the
\* pending sendBatch of an open producer resolves; and close() is reached
\* with no sendBatch pending.
C20_OneAfterTheOther ==
    [][\A c \in Processors :
          /\ InOrder(c)'
          /\ inv'[c].pc = "closing" => Pending(c)' = {}
          /\ (Len(bus') > Len(bus) /\ bus'[Len(bus')].by = c) =>
                /\ inv[c].pc = "sending"
                /\ inv[c].handle = "open"
                /\ bus' = Append(bus, [body |-> inv[c].event, by |-> c,
                                       cause |-> inv[c].srcs[inv[c].pos]])]_vars

\* DepositFunds waits for its second sendBatch, the event of the first is on
\* the bus
C20_Witness ==
    /\ fed.to = "DepositFunds"
    /\ inv["DepositFunds"].pc = "sending"
    /\ inv["DepositFunds"].pos = 2
    /\ Len(calls["DepositFunds"]) = 2
    /\ calls["DepositFunds"][1].result = "ok"
    /\ Len(bus) = 1
    /\ bus[1].cause = 1

(***************************************************************************)
(* C21. The two step processors do not wait for each other.                *)
(***************************************************************************)
\* the account field processor c reads
AccountOf(c) == IF c = "DepositFunds" THEN "toAccount" ELSE "fromAccount"

\* processor c is idle and the next event the bus has for it is a well formed
\* StartTransfer
NextIsTransfer(c) ==
    /\ inv[c].pc = "idle"
    /\ offset[c] < Len(bus)
    /\ WellFormed(Wire(bus[offset[c] + 1].body), "StartTransfer", AccountOf(c))

\* C21: whatever the other processor has done for a StartTransfer (nothing, a
\* sendBatch pending, a Completed or a Compensation event on the bus), a
\* processor that is idle with the StartTransfer next goes to sendBatch for it
\* and either of its two outcomes may be drawn; a processor whose sendBatch is
\* pending can have its event on the bus next; each event of a processor is
\* what that processor makes of its own message and its own draw.
C21_ProcessorsIndependent ==
    \A c \in Processors :
        /\ NextIsTransfer(c) =>
              LET message == Wire(bus[offset[c] + 1].body)
              IN /\ ForOf(c, <<message>>, <<offset[c] + 1>>, 1, <<>>).at = "send"
                 /\ {OutcomeEvent(c, success, message).type : success \in BOOLEAN}
                       = Outcomes(c)
        /\ inv[c].pc = "sending" =>
              ENABLED (\E success \in BOOLEAN :
                          /\ SendBatchOk(c, success)
                          /\ bus' = Append(bus, [body |-> inv[c].event, by |-> c,
                                                 cause |-> inv[c].srcs[inv[c].pos]]))
        /\ \A k \in 1..Len(bus) :
              bus[k].by = c =>
                  \E success \in BOOLEAN :
                      bus[k].body = OutcomeEvent(c, success, Wire(bus[bus[k].cause].body))

\* the withdrawal failed and its event came first, the deposit succeeded and
\* its event came after
C21_Witness ==
    /\ Len(bus) = 3
    /\ bus[2].by = "WithdrawFunds" /\ bus[2].body.type = Str("WithdrawCompensation")
    /\ bus[3].by = "DepositFunds" /\ bus[3].body.type = Str("DepositCompleted")
    /\ bus[2].cause = 1 /\ bus[3].cause = 1

(***************************************************************************)
(* C22. Messages that are JSON but carry no event field.                   *)
(***************************************************************************)
\* a JSON document without event fields: {}, null, a number
NoFields(message) ==
    \/ message.k \in {"null", "scalar"}
    \/ message.k = "object" /\ message.members = <<>>

\* C22 as stated: when the loop of a trigger is over, a message without event
\* fields that comes after such messages only raised no exception (the outer
\* catch logged nothing for it), and a message of the trigger's own type right
\* after it has been examined.
C22_NoFieldsSkipped ==
    \A c \in Consumers :
        LoopOver(c) =>
            \A i \in 1..Len(fed.batch) :
                (\A j \in 1..i : NoFields(fed.batch[j])) =>
                    /\ Lines(c, "Error processing messages", i) = {}
                    /\ ( /\ i < Len(fed.batch)
                         /\ Field(fed.batch[i + 1], "type") = Owned(c) )
                       => Examined(c, i + 1)

(***************************************************************************)
(* C23. Where the events of the bus come from.                             *)
(***************************************************************************)
\* the times processor c started on the StartTransfer at place k of the bus:
\* one line logged for each time it was handed the event
Started(c, k) ==
    Lines(c, IF c = "DepositFunds" THEN "Initiating deposit" ELSE "Initiating withdrawal", k)

\* C23: in every state, a StartTransfer on the bus was published by
\* ClientFunction; every other event is an outcome event of a step processor,
\* published for a StartTransfer earlier on the bus, with the amount of that
\* StartTransfer and its account (toAccount for DepositFunds, fromAccount for
\* WithdrawFunds); and a processor has published at most as many events for a
\* StartTransfer as the times it was handed it.
C23_Provenance ==
    /\ \A k \in 1..Len(bus) :
          IF bus[k].body.type = Str("StartTransfer")
          THEN bus[k].by = "ClientFunction"
          ELSE /\ bus[k].by \in Processors
               /\ bus[k].body.type \in Outcomes(bus[k].by)
               /\ bus[k].cause \in 1..(k - 1)
               /\ LET origin == bus[bus[k].cause] IN
                  /\ origin.body.type = Str("StartTransfer")
                  /\ origin.by = "ClientFunction"
                  /\ bus[k].body.amount = origin.body.amount
                  /\ Get(bus[k].body, AccountOf(bus[k].by))
                        = Get(origin.body, AccountOf(bus[k].by))
    /\ \A c \in Processors : \A k \in 1..Len(bus) :
          Cardinality(Published(c, k)) <= Cardinality(Started(c, k))

\* DepositFunds was handed the StartTransfer twice and published twice,
\* WithdrawFunds once
C23_Witness ==
    /\ Cardinality(Published("DepositFunds", 1)) = 2
    /\ Cardinality(Started("DepositFunds", 1)) = 2
    /\ Cardinality(Published("WithdrawFunds", 1)) = 1
    /\ Len(bus) = 4

====
